---- MODULE Spec2Model ----
(***************************************************************************)
(* Model of the ECG feature-extraction pipeline of src/post_processing.py: *)
(* the peak pairer (pair_peaks), the rhythm classifier (is_sinus_rhythm),  *)
(* the quality gate (check_signal_quality), the feature summarizer         *)
(* (extract_features) and the module-level batch loop.                     *)
(*                                                                         *)
(* Numbers.  Sample indices are integers.  A float the code computes is    *)
(* modelled by the exact rational it stands for: an interval in            *)
(* milliseconds is the pair <<num, den>> (value num/den), the missing      *)
(* marker np.nan is the empty tuple, and the comparisons against 0.2, 0.8  *)
(* and 0.05 are cross-multiplied into integer comparisons.                 *)
(*                                                                         *)
(* External collaborators (the band-pass filter of scipy, the delineation  *)
(* Oracle of neurokit2, the file system) are nondeterministic: each call   *)
(* either raises or returns one of a bounded family of results.            *)
(***************************************************************************)
EXTENDS Integers, Sequences, FiniteSets, TLC

VARIABLES
    \* ---- the batch loop (post_processing.py:135-175)
    files,          \* the listing: the kind of every *.npy file, in order
    fi,             \* position of the for loop in the listing (1-based)
    bpc,            \* where the batch loop is
    subject_type,   \* local of the loop body
    features,       \* the record being persisted (NoFeatures outside "save")
    written,        \* positions whose feature file has been written
    \* ---- one run of extract_features (post_processing.py:61-119)
    pc,             \* where extract_features is
    summary,        \* the FeatureRecord under construction
    q, p,           \* peak arrays read from the Oracle's frame that a later line
                    \* reads again (<<>> before the first and after the last read)
    \* ---- observation of the run (not read by the program)
    steps,          \* the steps performed by this run, in order
    log,            \* the assignments to summary made by this run, in order
    gate,           \* what the quality gate saw and answered in this run
    npairs,         \* per interval: how many pairs its pairing produced
    \* ---- harness for the pure functions
    fn,             \* "idle" | "input" | "paired" | "estimated" | "classified"
    inA, inB,       \* the two index sequences given to the function
    inMaxDist,      \* max_distance given to pair_peaks
    inFs,           \* sampling rate given to the function
    outPairs,       \* what pair_peaks returned
    outInterval,    \* the interval estimate over outPairs
    outSinus        \* what is_sinus_rhythm returned

batchVars == <<files, fi, bpc, subject_type, features, written>>
runVars   == <<pc, summary, q, p, steps, log, gate, npairs>>
pureVars  == <<fn, inA, inB, inMaxDist, inFs, outPairs, outInterval, outSinus>>
vars      == <<files, fi, bpc, subject_type, features, written,
               pc, summary, q, p, steps, log, gate, npairs,
               fn, inA, inB, inMaxDist, inFs, outPairs, outInterval, outSinus>>

----------------------------------------------------------------------------
(* Bounds of the model *)

\* longest index sequence handed to a pure function
MaxLen == 3
\* beats in a waveform: the Oracle reports at most one peak of each wave per beat
MaxBeats == 3
\* samples between the beats of a modelled waveform
BeatStride == 170
\* longest listing of the batch
MaxFiles == 2

(* Program constants *)

\* fs = 250 (post_processing.py:140)
FS == 250
\* max_distance=200 (post_processing.py:9)
DefaultMaxDistance == 200
\* min_r_peaks=3 (post_processing.py:47)
MinRPeaks == 3
\* min_std=0.05, in hundredths (post_processing.py:47)
MinStdHundredths == 5
\* len(p_peaks) < 3 or len(r_peaks) < 3 (post_processing.py:23)
MinRhythmPeaks == 3
\* rr_threshold=0.2, in tenths (post_processing.py:22)
RRThresholdTenths == 2
\* fs * 0.2, in tenths (post_processing.py:33)
WindowTenths == 2
\* matched / len(r_peaks) > 0.8, in tenths (post_processing.py:36)
MatchRatioTenths == 8

----------------------------------------------------------------------------
(* Values *)

\* np.nan, the missing marker
NaN == <<>>

\* a float with the exact value num/den
Ratio(num, den) == <<num, den>>

IsNaN(v) == v = NaN

\* v = k, v <= k, v >= 0 for a float v that is not NaN and an integer bound k/kd
RatioEq(v, k)      == v[1] = k * v[2]
RatioLeq(v, k, kd) == v[1] * kd <= k * v[2]
RatioNonNeg(v)     == v[1] >= 0

Abs(x) == IF x < 0 THEN -x ELSE x

Range(s) == {s[i] : i \in DOMAIN s}

SetMin(S) == CHOOSE x \in S : \A y \in S : x <= y

RECURSIVE SortedSeq(_)
\* the elements of a finite set of integers in increasing order
SortedSeq(S) == IF S = {} THEN <<>>
                ELSE LET m == SetMin(S) IN <<m>> \o SortedSeq(S \ {m})

\* the strictly increasing sequences over S of length at most n
IncSeqs(S, n) == {SortedSeq(T) : T \in {U \in SUBSET S : Cardinality(U) <= n}}

RECURSIVE SeqSum(_)
SeqSum(s) == IF s = <<>> THEN 0 ELSE s[1] + SeqSum(Tail(s))

----------------------------------------------------------------------------
(* pair_peaks, post_processing.py:9-20 *)

RECURSIVE Advance(_, _, _)
\* while j < len(peaks2) and peaks2[j] < peaks1[i]: j += 1   (j is 1-based here)
Advance(peaks2, x, j) ==
    IF j <= Len(peaks2) /\ peaks2[j] < x THEN Advance(peaks2, x, j + 1) ELSE j

RECURSIVE PairLoop(_, _, _, _, _, _, _)
\* the for loop over peaks1, from position i with the sweep of peaks2 at j
PairLoop(peaks1, peaks2, max_distance, i, j, pairs1, pairs2) ==
    IF i > Len(peaks1) THEN <<pairs1, pairs2>>
    ELSE LET j2 == Advance(peaks2, peaks1[i], j) IN
         IF j2 <= Len(peaks2) /\ Abs(peaks2[j2] - peaks1[i]) <= max_distance
         THEN PairLoop(peaks1, peaks2, max_distance, i + 1, j2 + 1,
                       Append(pairs1, peaks1[i]), Append(pairs2, peaks2[j2]))
         ELSE PairLoop(peaks1, peaks2, max_distance, i + 1, j2, pairs1, pairs2)

RECURSIVE PairLoopReuse(_, _, _, _, _, _, _)
\* pair_peaks without the j += 1 that consumes the matched element of peaks2
PairLoopReuse(peaks1, peaks2, max_distance, i, j, pairs1, pairs2) ==
    IF i > Len(peaks1) THEN <<pairs1, pairs2>>
    ELSE LET j2 == Advance(peaks2, peaks1[i], j) IN
         IF j2 <= Len(peaks2) /\ Abs(peaks2[j2] - peaks1[i]) <= max_distance
         THEN PairLoopReuse(peaks1, peaks2, max_distance, i + 1, j2,
                            Append(pairs1, peaks1[i]), Append(pairs2, peaks2[j2]))
         ELSE PairLoopReuse(peaks1, peaks2, max_distance, i + 1, j2, pairs1, pairs2)

pair_peaks_reuse(peaks1, peaks2, max_distance) ==
    PairLoopReuse(peaks1, peaks2, max_distance, 1, 1, <<>>, <<>>)

RECURSIVE PairLoopStrict(_, _, _, _, _, _, _)
\* pair_peaks with < max_distance in place of <= max_distance
PairLoopStrict(peaks1, peaks2, max_distance, i, j, pairs1, pairs2) ==
    IF i > Len(peaks1) THEN <<pairs1, pairs2>>
    ELSE LET j2 == Advance(peaks2, peaks1[i], j) IN
         IF j2 <= Len(peaks2) /\ Abs(peaks2[j2] - peaks1[i]) < max_distance
         THEN PairLoopStrict(peaks1, peaks2, max_distance, i + 1, j2 + 1,
                             Append(pairs1, peaks1[i]), Append(pairs2, peaks2[j2]))
         ELSE PairLoopStrict(peaks1, peaks2, max_distance, i + 1, j2, pairs1, pairs2)

pair_peaks_strict(peaks1, peaks2, max_distance) ==
    PairLoopStrict(peaks1, peaks2, max_distance, 1, 1, <<>>, <<>>)

\* pairs1, pairs2 = [], []; j = 0; for i in range(len(peaks1)): ...; return
pair_peaks(peaks1, peaks2, max_distance) ==
    PairLoop(peaks1, peaks2, max_distance, 1, 1, <<>>, <<>>)

----------------------------------------------------------------------------
(* The interval estimate, post_processing.py:97-99 (and 103-105, 109-111) *)

\* the mean in seconds: the * 1000 forgotten
MeanSeconds(matched, fs) ==
    Ratio(SeqSum(matched[2]) - SeqSum(matched[1]), fs * Len(matched[1]))

\* 0 in place of the mean
MeanZero(matched, fs) == Ratio(0, 1)

\* float(np.mean((b_matched - a_matched) / fs * 1000)), for at least one pair
MeanMs(matched, fs) ==
    Ratio(1000 * (SeqSum(matched[2]) - SeqSum(matched[1])), fs * Len(matched[1]))

\* the guard on the number of pairs dropped, an empty mean read as zero
IntervalOrZero(a, b, fs, max_distance) ==
    LET matched == pair_peaks(a, b, max_distance) IN
    IF Len(matched[1]) > 0 THEN MeanMs(matched, fs) ELSE MeanZero(matched, fs)

\* if len(a) > 0 and len(b) > 0: pair; if len(a_matched) > 0: the mean; NaN stands
\* for "no assignment", which leaves the field at its np.nan default
Interval(a, b, fs, max_distance) ==
    IF Len(a) > 0 /\ Len(b) > 0
    THEN LET matched == pair_peaks(a, b, max_distance) IN
         IF Len(matched[1]) > 0 THEN MeanMs(matched, fs) ELSE NaN
    ELSE NaN

----------------------------------------------------------------------------
(* is_sinus_rhythm, post_processing.py:22-36 *)

\* np.diff(r_peaks)
Diff(s) == [i \in 1..(Len(s) - 1) |-> s[i + 1] - s[i]]

SumSquares(s) == SeqSum([i \in DOMAIN s |-> s[i] * s[i]])

\* np.std(np.diff(r_peaks) / fs) > rr_threshold, squared and cleared of fractions:
\* with d the n differences, std^2 = (n * sum d^2 - (sum d)^2) / (n * fs)^2
RRIrregular(r_peaks, fs) ==
    LET d == Diff(r_peaks)
        n == Len(d)
    IN  100 * (n * SumSquares(d) - SeqSum(d) * SeqSum(d))
          > RRThresholdTenths * RRThresholdTenths * n * n * fs * fs

\* preceding_p = p_peaks[p_peaks < r]
Preceding(p_peaks, r) == SelectSeq(p_peaks, LAMBDA x : x < r)

\* len(preceding_p) > 0 and r - preceding_p[-1] < fs * 0.2
Matches(p_peaks, r, fs) ==
    LET preceding_p == Preceding(p_peaks, r) IN
    /\ Len(preceding_p) > 0
    /\ 10 * (r - preceding_p[Len(preceding_p)]) < fs * WindowTenths

\* matched, after the loop over r_peaks
MatchedCount(p_peaks, r_peaks, fs) ==
    Cardinality({i \in DOMAIN r_peaks : Matches(p_peaks, r_peaks[i], fs)})

\* is_sinus_rhythm with the window test dropped: any preceding P-peak matches
is_sinus_rhythm_any_preceding(p_peaks, r_peaks, fs) ==
    IF Len(p_peaks) < MinRhythmPeaks \/ Len(r_peaks) < MinRhythmPeaks THEN FALSE
    ELSE IF RRIrregular(r_peaks, fs) THEN FALSE
    ELSE 10 * Cardinality({i \in DOMAIN r_peaks :
                              Len(Preceding(p_peaks, r_peaks[i])) > 0})
           > MatchRatioTenths * Len(r_peaks)

\* rr_threshold is always the default 0.2
is_sinus_rhythm(p_peaks, r_peaks, fs) ==
    IF Len(p_peaks) < MinRhythmPeaks \/ Len(r_peaks) < MinRhythmPeaks THEN FALSE
    ELSE IF RRIrregular(r_peaks, fs) THEN FALSE
    ELSE 10 * MatchedCount(p_peaks, r_peaks, fs) > MatchRatioTenths * Len(r_peaks)

----------------------------------------------------------------------------
(* check_signal_quality, post_processing.py:47-57.  Its arguments are what  *)
(* the calls inside it do: whether bandpass_filter and nk.ecg_process       *)
(* return, the number of R-peaks in the Oracle's frame, and np.std of the   *)
(* filtered signal in hundredths.  The result says whether the call raised  *)
(* and, if not, the value it returned.                                      *)

\* check_signal_quality without its try/except
check_signal_quality_unguarded(filter_ok, oracle_ok, num_r_peaks, signal_std) ==
    IF ~filter_ok \/ ~oracle_ok
    THEN [raised |-> TRUE, value |-> FALSE]
    ELSE [raised |-> FALSE,
          value  |-> num_r_peaks >= MinRPeaks /\ signal_std >= MinStdHundredths]

check_signal_quality(filter_ok, oracle_ok, num_r_peaks, signal_std) ==
    IF ~filter_ok \/ ~oracle_ok
    THEN \* except Exception: print(...); return False
         [raised |-> FALSE, value |-> FALSE]
    ELSE \* return num_r_peaks >= min_r_peaks and signal_std >= min_std
         [raised |-> FALSE,
          value  |-> num_r_peaks >= MinRPeaks /\ signal_std >= MinStdHundredths]

----------------------------------------------------------------------------
(* extract_features, post_processing.py:61-119 *)

NumericKeys == {"Heart_Rate_Mean", "PR_Interval_ms", "QRS_Duration_ms", "QT_Interval_ms"}

IntervalKeys == {"PR_Interval_ms", "QRS_Duration_ms", "QT_Interval_ms"}

SchemaKeys == NumericKeys \cup {"Sinus_Rhythm", "Quality_OK"}

\* summary = {...}, lines 62-69
DefaultSummary ==
    [Heart_Rate_Mean |-> NaN, PR_Interval_ms |-> NaN, QRS_Duration_ms |-> NaN,
     QT_Interval_ms |-> NaN, Sinus_Rhythm |-> FALSE, Quality_OK |-> FALSE]

\* the gate has not been called in this run
NoGate ==
    [called |-> FALSE, filter_ok |-> FALSE, oracle_ok |-> FALSE,
     num_r_peaks |-> 0, signal_std |-> 0, raised |-> FALSE, value |-> FALSE]

\* no pairing has produced a pair in this run
NoPairing == [PR_Interval_ms |-> 0, QRS_Duration_ms |-> 0, QT_Interval_ms |-> 0]

\* the wave a peak array holds, and where in a beat that wave lies (in samples)
WaveOffset == [P |-> 0, Q |-> 30, R |-> 40, S |-> 70, T |-> 130]

\* what signals.index[signals[column] == 1].to_numpy() can be for wave w: the
\* wave's position in any subset of the beats, in increasing order
WavePeaks(w) ==
    {SortedSeq({k * BeatStride + WaveOffset[w] : k \in B}) :
        B \in SUBSET (0 .. MaxBeats - 1)}

\* the arrays q, s, p, t, r of lines 88-92
QPeaks == WavePeaks("Q")
SPeaks == WavePeaks("S")
PPeaks == WavePeaks("P")
TPeaks == WavePeaks("T")
RPeaks == WavePeaks("R")

\* float(features.get("ECG_Rate_Mean", np.nan)): missing, or a rate
RateChoices == {NaN, Ratio(75, 1)}

\* np.std of the filtered signal, in hundredths: flat, just below and at min_std
StdLevels == {0, 4, 5}

\* len(r_peaks) inside the gate: none, just below and at min_r_peaks
RPeakCounts == {0, 2, 3}

\* the except clause re-raising instead of returning the summary
OnExceptionReraise(s) == [propagates |-> TRUE, summary |-> s]

\* the except clause starting over from an empty record
OnExceptionReset(s) == [propagates |-> FALSE, summary |-> DefaultSummary]

\* except Exception as e: print(...), lines 116-117; then return summary, line 119
OnException(s) == [propagates |-> FALSE, summary |-> s]

\* line 79 without the early return
ProceedsAlways(quality_ok) == TRUE

\* if not quality_ok: return summary, lines 79-80
Proceeds(quality_ok) == quality_ok

Terminal == {"Rejected", "Assembled", "Failed"}

\* the features variable outside the try body
NoFeatures == <<>>

\* nothing returned yet by pair_peaks
NoPairs == <<<<>>, <<>>>>

BatchIdle ==
    /\ files = <<>>
    /\ fi = 1
    /\ bpc = "idle"
    /\ subject_type = "none"
    /\ features = NoFeatures
    /\ written = {}

RunIdle ==
    /\ pc = "idle"
    /\ summary = DefaultSummary
    /\ q = <<>>
    /\ p = <<>>
    /\ steps = <<>>
    /\ log = <<>>
    /\ gate = NoGate
    /\ npairs = NoPairing

PureIdle ==
    /\ fn = "idle"
    /\ inA = <<>>
    /\ inB = <<>>
    /\ inMaxDist = DefaultMaxDistance
    /\ inFs = FS
    /\ outPairs = NoPairs
    /\ outInterval = NaN
    /\ outSinus = FALSE

\* an exception raised at a step inside the try, before the step assigns or
\* pairs anything: the handler runs
Raise(step) ==
    LET h == OnException(summary) IN
    /\ pc' = IF h.propagates THEN "Propagated" ELSE "Failed"
    /\ summary' = h.summary
    /\ steps' = Append(steps, step)
    /\ UNCHANGED <<q, p, log, gate, npairs>>

\* summary[key] = value
Assign(key, value) ==
    /\ summary' = [summary EXCEPT ![key] = value]
    /\ log' = Append(log, <<key, value>>)

\* filtered_signal = bandpass_filter(ecg_signal, fs), line 73
Filter ==
    /\ bpc = "extract" /\ pc = "Start"
    /\ \/ /\ pc' = "Filtered"
          /\ steps' = Append(steps, "filter")
          /\ UNCHANGED <<summary, q, p, log, gate, npairs>>
       \/ Raise("filter")
    /\ UNCHANGED <<batchVars, pureVars>>

\* quality_ok = check_signal_quality(filtered_signal, fs); summary["Quality_OK"] =
\* quality_ok, lines 76-77.  The gate filters again and calls the Oracle itself; a
\* call that is not reached leaves its outcome at 0 / FALSE.
QualityGate ==
    /\ bpc = "extract" /\ pc = "Filtered"
    /\ \E filter_ok, oracle_ok \in BOOLEAN, n \in RPeakCounts, sd \in StdLevels :
          /\ ~filter_ok => ~oracle_ok
          /\ ~oracle_ok => n = 0 /\ sd = 0
          /\ LET res == check_signal_quality(filter_ok, oracle_ok, n, sd) IN
             /\ gate' = [called |-> TRUE, filter_ok |-> filter_ok,
                         oracle_ok |-> oracle_ok, num_r_peaks |-> n,
                         signal_std |-> sd, raised |-> res.raised,
                         value |-> res.value]
             /\ IF res.raised
                THEN LET h == OnException(summary) IN
                     /\ pc' = IF h.propagates THEN "Propagated" ELSE "Failed"
                     /\ summary' = h.summary
                     /\ log' = log
                ELSE /\ pc' = "QualityChecked"
                     /\ Assign("Quality_OK", res.value)
             /\ steps' = Append(steps, "gate")
    /\ UNCHANGED <<q, p, npairs>>
    /\ UNCHANGED <<batchVars, pureVars>>

\* if not quality_ok: return summary, lines 79-80
Reject ==
    /\ bpc = "extract" /\ pc = "QualityChecked"
    /\ ~Proceeds(summary.Quality_OK)
    /\ pc' = "Rejected"
    /\ UNCHANGED <<summary, q, p, steps, log, gate, npairs>>
    /\ UNCHANGED <<batchVars, pureVars>>

\* signals, info = nk.ecg_process(...); features = nk.ecg_analyze(...);
\* summary["Heart_Rate_Mean"] = float(features.get("ECG_Rate_Mean", np.nan)),
\* lines 83-85
Process ==
    /\ bpc = "extract" /\ pc = "QualityChecked"
    /\ Proceeds(summary.Quality_OK)
    /\ \/ \E rate \in RateChoices :
             /\ pc' = "Processed"
             /\ Assign("Heart_Rate_Mean", rate)
             /\ steps' = Append(steps, "delineate")
             /\ UNCHANGED <<q, p, gate, npairs>>
       \/ Raise("delineate")
    /\ UNCHANGED <<batchVars, pureVars>>

\* q, s, p, t, r = signals.index[signals[...] == 1].to_numpy(), lines 88-92.  The
\* frame is the Oracle's and opaque: what an array holds is drawn where the array
\* is first read (q and s at line 95, p at 101, t at 107, r at 114).
ExtractPeaks ==
    /\ bpc = "extract" /\ pc = "Processed"
    /\ \/ /\ pc' = "Delineated"
          /\ steps' = Append(steps, "peaks")
          /\ UNCHANGED <<summary, q, p, log, gate, npairs>>
       \/ Raise("peaks")
    /\ UNCHANGED <<batchVars, pureVars>>

\* one interval of step 5: pair a with b, and assign the mean when there are pairs
ComputeInterval(key, a, b) ==
    LET v == Interval(a, b, FS, DefaultMaxDistance) IN
    /\ IF IsNaN(v) THEN UNCHANGED <<summary, log>> ELSE Assign(key, v)
    /\ npairs' = [npairs EXCEPT
                    ![key] = Len(pair_peaks(a, b, DefaultMaxDistance)[1])]

\* lines 95-99
ComputeQRS ==
    /\ bpc = "extract" /\ pc = "Delineated"
    /\ \/ \E qq \in QPeaks, ss \in SPeaks :
             /\ q' = qq
             /\ ComputeInterval("QRS_Duration_ms", qq, ss)
             /\ pc' = "QRS"
             /\ steps' = Append(steps, "pair_QRS")
             /\ UNCHANGED <<p, gate>>
       \/ Raise("pair_QRS")
    /\ UNCHANGED <<batchVars, pureVars>>

\* lines 101-105
ComputePR ==
    /\ bpc = "extract" /\ pc = "QRS"
    /\ \/ \E pp \in PPeaks :
             /\ p' = pp
             /\ ComputeInterval("PR_Interval_ms", pp, q)
             /\ pc' = "PR"
             /\ steps' = Append(steps, "pair_PR")
             /\ UNCHANGED <<q, gate>>
       \/ Raise("pair_PR")
    /\ UNCHANGED <<batchVars, pureVars>>

\* lines 107-111; q is not read after them
ComputeQT ==
    /\ bpc = "extract" /\ pc = "PR"
    /\ \/ \E tt \in TPeaks :
             /\ ComputeInterval("QT_Interval_ms", q, tt)
             /\ q' = <<>>
             /\ pc' = "QT"
             /\ steps' = Append(steps, "pair_QT")
             /\ UNCHANGED <<p, gate>>
       \/ Raise("pair_QT")
    /\ UNCHANGED <<batchVars, pureVars>>

\* summary["Sinus_Rhythm"] = is_sinus_rhythm(p, r, fs), line 114; p is not read
\* after it
ClassifyRhythm ==
    /\ bpc = "extract" /\ pc = "QT"
    /\ \/ \E rr \in RPeaks :
             /\ Assign("Sinus_Rhythm", is_sinus_rhythm(p, rr, FS))
             /\ p' = <<>>
             /\ pc' = "Assembled"
             /\ steps' = Append(steps, "rhythm")
             /\ UNCHANGED <<q, gate, npairs>>
       \/ Raise("rhythm")
    /\ UNCHANGED <<batchVars, pureVars>>

----------------------------------------------------------------------------
(* The batch loop, post_processing.py:139-175 *)

\* a file name holds "fecg", holds "mecg", or holds neither
FileKinds == {"fecg", "mecg", "other"}

\* files = [f for f in os.listdir(base_dir) if f.endswith(".npy")]
Listings == UNION {[1 .. n -> FileKinds] : n \in 0 .. MaxFiles}

RunStart ==
    /\ pc' = "Start"
    /\ summary' = DefaultSummary
    /\ q' = <<>>
    /\ p' = <<>>
    /\ steps' = <<>>
    /\ log' = <<>>
    /\ gate' = NoGate
    /\ npairs' = NoPairing

RunEnd ==
    /\ pc' = "idle"
    /\ summary' = DefaultSummary
    /\ q' = <<>>
    /\ p' = <<>>
    /\ steps' = <<>>
    /\ log' = <<>>
    /\ gate' = NoGate
    /\ npairs' = NoPairing

Init ==
    /\ files \in Listings
    /\ fi = 1
    /\ bpc = "loop"
    /\ subject_type = "none"
    /\ features = NoFeatures
    /\ written = {}
    /\ RunIdle
    /\ PureIdle

\* for filename in files: the listing is exhausted
LoopEnd ==
    /\ bpc = "loop" /\ fi > Len(files)
    /\ bpc' = "done"
    /\ UNCHANGED <<files, fi, subject_type, features, written>>
    /\ UNCHANGED <<runVars, pureVars>>

\* else: print("Skipping unknown type ..."); continue, lines 149-151
LoopSkip ==
    /\ bpc = "loop" /\ fi <= Len(files)
    /\ files[fi] = "other"
    /\ fi' = fi + 1
    /\ UNCHANGED <<files, bpc, subject_type, features, written>>
    /\ UNCHANGED <<runVars, pureVars>>

\* subject_type = "fetal" / "maternal", lines 145-148
LoopSelect ==
    /\ bpc = "loop" /\ fi <= Len(files)
    /\ files[fi] # "other"
    /\ subject_type' = IF files[fi] = "fecg" THEN "fetal" ELSE "maternal"
    /\ bpc' = "load"
    /\ UNCHANGED <<files, fi, features, written>>
    /\ UNCHANGED <<runVars, pureVars>>

\* signal = np.load(filepath), line 153, outside the try of line 155: when it
\* raises, the script ends; otherwise extract_features is entered, line 156
Load ==
    /\ bpc = "load"
    /\ \/ /\ bpc' = "extract"
          /\ RunStart
       \/ /\ bpc' = "aborted"
          /\ UNCHANGED runVars
    /\ UNCHANGED <<files, fi, subject_type, features, written>>
    /\ UNCHANGED pureVars

\* return summary (line 80 or 119); features["subject_type"] = subject_type;
\* features["filename"] = filename, lines 159-160
Return ==
    /\ bpc = "extract" /\ pc \in Terminal
    /\ features' = [subject_type |-> subject_type, filename |-> fi] @@ summary
    /\ bpc' = "save"
    /\ RunEnd
    /\ UNCHANGED <<files, fi, subject_type, written>>
    /\ UNCHANGED pureVars

\* sanitize_for_json, open, json.dump, lines 163-172; a failure of any of them is
\* caught at line 174 and the loop goes on
Save ==
    /\ bpc = "save"
    /\ \/ written' = written \cup {fi}
       \/ written' = written
    /\ fi' = fi + 1
    /\ bpc' = "loop"
    /\ features' = NoFeatures
    /\ UNCHANGED <<files, subject_type>>
    /\ UNCHANGED <<runVars, pureVars>>

Next ==
    \/ LoopEnd \/ LoopSkip \/ LoopSelect \/ Load
    \/ Filter \/ QualityGate \/ Reject \/ Process \/ ExtractPeaks
    \/ ComputeQRS \/ ComputePR \/ ComputeQT \/ ClassifyRhythm
    \/ Return \/ Save

Spec == Init /\ [][Next]_vars

----------------------------------------------------------------------------
(* The pure functions on bounded inputs *)

\* sample indices for the peak pairer; they hold the sequences of the spec's
\* scenarios and pairs at distance 50, 60, 200 and beyond
PairPositions == {100, 150, 300, 500, 560, 900, 1500}

PairInputs == IncSeqs(PairPositions, MaxLen)

MaxDistances == {-1, 0, 50, 200, 600}

\* sample indices for the rhythm classifier: P-peaks 40 samples and 180 to 220
\* samples before the R-peaks 260, 520, 780, and one late R-peak
SinusPositions == {50, 220, 260, 300, 480, 520, 600, 740, 780, 1500}

SinusInputs == IncSeqs(SinusPositions, MaxLen)

SinusRates == {250, 1000}

InitPair ==
    /\ BatchIdle
    /\ RunIdle
    /\ fn = "input"
    /\ inA \in PairInputs
    /\ inB \in PairInputs
    /\ inMaxDist \in MaxDistances
    /\ inFs = FS
    /\ outPairs = NoPairs
    /\ outInterval = NaN
    /\ outSinus = FALSE

\* pairs1, pairs2 = pair_peaks(inA, inB, inMaxDist)
CallPairPeaks ==
    /\ fn = "input"
    /\ fn' = "paired"
    /\ outPairs' = pair_peaks(inA, inB, inMaxDist)
    /\ UNCHANGED <<inA, inB, inMaxDist, inFs, outInterval, outSinus>>
    /\ UNCHANGED <<batchVars, runVars>>

\* the interval estimate of lines 95-99 over inA and inB
CallInterval ==
    /\ fn = "input"
    /\ fn' = "estimated"
    /\ outPairs' = pair_peaks(inA, inB, inMaxDist)
    /\ outInterval' = Interval(inA, inB, inFs, inMaxDist)
    /\ UNCHANGED <<inA, inB, inMaxDist, inFs, outSinus>>
    /\ UNCHANGED <<batchVars, runVars>>

NextPair == CallPairPeaks \/ CallInterval

SpecPair == InitPair /\ [][NextPair]_vars

InitSinus ==
    /\ BatchIdle
    /\ RunIdle
    /\ fn = "input"
    /\ inA \in SinusInputs
    /\ inB \in SinusInputs
    /\ inMaxDist = DefaultMaxDistance
    /\ inFs \in SinusRates
    /\ outPairs = NoPairs
    /\ outInterval = NaN
    /\ outSinus = FALSE

\* outSinus = is_sinus_rhythm(p_peaks = inA, r_peaks = inB, inFs)
CallIsSinusRhythm ==
    /\ fn = "input"
    /\ fn' = "classified"
    /\ outSinus' = is_sinus_rhythm(inA, inB, inFs)
    /\ UNCHANGED <<inA, inB, inMaxDist, inFs, outPairs, outInterval>>
    /\ UNCHANGED <<batchVars, runVars>>

NextSinus == CallIsSinusRhythm

SpecSinus == InitSinus /\ [][NextSinus]_vars

----------------------------------------------------------------------------
(* Properties of the peak pairer, under SpecPair *)

Called == fn \in {"paired", "estimated"}

NonDecreasing(s) == \A i \in 1 .. (Len(s) - 1) : s[i] <= s[i + 1]

\* s is t with some of its elements left out
IsSubsequence(s, t) ==
    \E f \in [DOMAIN s -> DOMAIN t] :
        /\ \A i \in DOMAIN s : t[f[i]] = s[i]
        /\ \A i \in 1 .. (Len(s) - 1) : f[i] < f[i + 1]

\* no value occurs twice in s
Injective(s) == \A i, j \in DOMAIN s : s[i] = s[j] => i = j

Min(a, b) == IF a <= b THEN a ELSE b

\* C4: for strictly increasing A and B and any max_distance, pair_peaks returns two
\* sequences of equal length, at most min(|A|,|B|) long (empty when A or B is
\* empty), each non-decreasing and a subsequence of its input, and no element of
\* A or of B occurs in more than one pair.
C4_PairsWellFormed ==
    Called =>
        /\ Len(outPairs[1]) = Len(outPairs[2])
        /\ Len(outPairs[1]) <= Min(Len(inA), Len(inB))
        /\ (inA = <<>> \/ inB = <<>>) => outPairs = NoPairs
        /\ NonDecreasing(outPairs[1]) /\ NonDecreasing(outPairs[2])
        /\ IsSubsequence(outPairs[1], inA) /\ IsSubsequence(outPairs[2], inB)
        /\ Injective(outPairs[1]) /\ Injective(outPairs[2])

\* the second scenario of the spec: 900 stays unmatched, two pairs are made
C4_Witness ==
    /\ fn = "paired"
    /\ inA = <<100, 500, 900>> /\ inB = <<150, 560, 1500>> /\ inMaxDist = 200
    /\ outPairs = << <<100, 500>>, <<150, 560>> >>

\* the positions of inB holding the elements at or after a
AtOrAfter(a) == {k \in DOMAIN inB : inB[k] >= a}

\* C5: every pair (a, b) that pair_peaks emits has b >= a and b - a <= max_distance,
\* and the boundary is inclusive: an element of A whose first element of B at or
\* after it lies exactly max_distance later is paired with that element.
C5_PairsWithinTolerance ==
    Called =>
        /\ \A n \in DOMAIN outPairs[1] :
              /\ outPairs[2][n] >= outPairs[1][n]
              /\ outPairs[2][n] - outPairs[1][n] <= inMaxDist
        /\ \A i \in DOMAIN inA :
              (/\ AtOrAfter(inA[i]) # {}
               /\ inB[SetMin(AtOrAfter(inA[i]))] = inA[i] + inMaxDist)
              => \E n \in DOMAIN outPairs[1] :
                    /\ outPairs[1][n] = inA[i]
                    /\ outPairs[2][n] = inA[i] + inMaxDist

\* a pair exactly max_distance apart has been emitted
C5_Witness ==
    /\ fn = "paired"
    /\ inMaxDist = 200
    /\ \E n \in DOMAIN outPairs[1] : outPairs[2][n] - outPairs[1][n] = 200

\* the third scenario of the spec, after the estimate
Scenario3 ==
    /\ fn = "estimated"
    /\ inA = <<100, 500, 900>> /\ inB = <<150, 560, 1500>>
    /\ inFs = 250 /\ inMaxDist = 200

\* C6 as stated: for A=[100,500,900], B=[150,560,1500], fs=250, max_distance=200 the
\* mean of (index_b - index_a) / fs * 1000 over the pairs is 136 ms.
C6_Mean136 ==
    Scenario3 => ~IsNaN(outInterval) /\ RatioEq(outInterval, 136)

\* C6 as amended: for the same inputs the pairs are (100,150) and (500,560) and the
\* mean of (index_b - index_a) / fs * 1000 over them is 220 ms.
C6_Mean220 ==
    Scenario3 =>
        /\ outPairs = << <<100, 500>>, <<150, 560>> >>
        /\ ~IsNaN(outInterval) /\ RatioEq(outInterval, 220)

C6_Witness == Scenario3 /\ ~IsNaN(outInterval)

----------------------------------------------------------------------------
(* Properties of the rhythm classifier, under SpecSinus *)

\* the fourth scenario of the spec, after the classification
Scenario4 ==
    /\ fn = "classified"
    /\ inA = <<50, 300, 600>> /\ inB = <<260, 520, 780>>
    /\ inFs = 250

\* C7 as stated: for P=[50,300,600], R=[260,520,780], fs=250 and the default
\* threshold each of the three R-peaks has a preceding P-peak within the
\* 50-sample window and is_sinus_rhythm returns true.
C7_ScenarioIsSinus ==
    Scenario4 => MatchedCount(inA, inB, inFs) = 3 /\ outSinus = TRUE

\* C7 as amended: for the same inputs the RR intervals are regular, the nearest
\* preceding P-peaks lie 210, 220 and 180 samples before the R-peaks, none of the
\* three within the 50-sample window, and is_sinus_rhythm returns false.
C7_ScenarioIsNotSinus ==
    Scenario4 =>
        /\ ~RRIrregular(inB, inFs)
        /\ MatchedCount(inA, inB, inFs) = 0
        /\ outSinus = FALSE

C7_Witness == Scenario4 /\ Len(Preceding(inA, inB[1])) > 0

----------------------------------------------------------------------------
(* Properties of extract_features and of the batch loop, under Spec *)

\* every rate and interval of record rec is missing and its rhythm flag is false
Blank(rec) ==
    /\ \A k \in NumericKeys : IsNaN(rec[k])
    /\ rec.Sinus_Rhythm = FALSE

\* C1: every record extract_features returns has, when Quality_OK is false,
\* Heart_Rate_Mean, PR_Interval_ms, QRS_Duration_ms and QT_Interval_ms missing and
\* Sinus_Rhythm false; so has the record the batch loop persists.
C1_RejectedRecordBlank ==
    /\ pc \in Terminal => (summary.Quality_OK = FALSE => Blank(summary))
    /\ bpc = "save" => (features.Quality_OK = FALSE => Blank(features))

\* the first scenario of the spec: a flat waveform is rejected by the gate
C1_Witness ==
    /\ pc = "Rejected"
    /\ gate.oracle_ok /\ gate.signal_std < MinStdHundredths
    /\ summary.Quality_OK = FALSE

\* the value last assigned to summary[k] by this run, its default if none was
LastAssigned(k) ==
    LET at == {i \in DOMAIN log : log[i][1] = k} IN
    IF at = {} THEN DefaultSummary[k]
    ELSE log[CHOOSE i \in at : \A j \in at : j <= i][2]

\* C2: extract_features never propagates an exception: whichever step fails, it
\* returns a record with exactly the six schema keys, in which every field assigned
\* before the failure keeps its value and every other field holds its default.
C2_FailSoft ==
    /\ pc # "Propagated"
    /\ pc \in Terminal =>
          /\ DOMAIN summary = SchemaKeys
          /\ \A k \in SchemaKeys : summary[k] = LastAssigned(k)

\* the PR pairing failed after Quality_OK, the rate and the QRS duration were set
C2_Witness ==
    /\ pc = "Failed"
    /\ steps[Len(steps)] = "pair_PR"
    /\ summary.Quality_OK = TRUE
    /\ ~IsNaN(summary.Heart_Rate_Mean) /\ ~IsNaN(summary.QRS_Duration_ms)
    /\ IsNaN(summary.PR_Interval_ms)

\* C3: a failure while handling one waveform file (loading it, extracting its
\* features, sanitizing or writing its feature file) never aborts the batch: when
\* the script stops, the loop has gone through the whole listing.
C3_BatchVisitsEveryFile ==
    bpc \in {"done", "aborted"} => fi > Len(files)

\* C8: check_signal_quality never raises; it returns false whenever the filter or
\* the Oracle call inside it fails, and returns true only when the Oracle succeeded,
\* reported at least min_r_peaks R-peaks and the standard deviation of the signal
\* it filtered is at least min_std.
C8_GateFailsClosed ==
    gate.called =>
        /\ ~gate.raised
        /\ (~gate.filter_ok \/ ~gate.oracle_ok) => gate.value = FALSE
        /\ gate.value = TRUE =>
              /\ gate.filter_ok /\ gate.oracle_ok
              /\ gate.num_r_peaks >= MinRPeaks
              /\ gate.signal_std >= MinStdHundredths

\* the Oracle failed inside the gate and the waveform was rejected
C8_Witness ==
    /\ gate.called /\ gate.filter_ok /\ ~gate.oracle_ok
    /\ gate.value = FALSE
    /\ pc = "Rejected"

\* the steps of a run that is assembled, in order
AllSteps ==
    <<"filter", "gate", "delineate", "peaks", "pair_QRS", "pair_PR", "pair_QT",
      "rhythm">>

IsPrefix(s, t) == Len(s) <= Len(t) /\ SubSeq(t, 1, Len(s)) = s

\* C9: the steps of one run follow Start -> Filtered -> QualityChecked ->
\* {Rejected | Delineated} -> Assembled: delineation is performed only after the
\* filter succeeded and the gate returned true, and once the gate has rejected the
\* waveform no further step (Oracle call, pairing, rhythm classification) runs.
C9_StepOrder ==
    /\ IsPrefix(steps, AllSteps)
    /\ pc = "Filtered" => steps = <<"filter">>
    /\ pc = "QualityChecked" => steps = <<"filter", "gate">>
    /\ pc = "Rejected" => steps = <<"filter", "gate">> /\ summary.Quality_OK = FALSE
    /\ pc = "Delineated" => steps = SubSeq(AllSteps, 1, 4)
    /\ pc = "Assembled" => steps = AllSteps
    /\ Len(steps) >= 3 => gate.called /\ ~gate.raised /\ gate.value = TRUE
    /\ (gate.called /\ gate.value = FALSE) => Len(steps) = 2

\* a run went through every step
C9_Witness == pc = "Assembled" /\ steps = AllSteps /\ summary.Sinus_Rhythm = TRUE

\* interval v lies in [0, max_distance / fs * 1000]
InRange(v) == RatioNonNeg(v) /\ RatioLeq(v, 1000 * DefaultMaxDistance, FS)

\* C10: in every record extract_features returns, each of QRS_Duration_ms,
\* PR_Interval_ms and QT_Interval_ms is missing or lies in the closed range
\* [0, max_distance / fs * 1000] (0 to 800 ms), and it is missing exactly when its
\* pairing produced no pair.
C10_IntervalsInRange ==
    /\ pc \in Terminal =>
          \A k \in IntervalKeys :
              /\ IsNaN(summary[k]) <=> npairs[k] = 0
              /\ ~IsNaN(summary[k]) => InRange(summary[k])
    /\ bpc = "save" =>
          \A k \in IntervalKeys : ~IsNaN(features[k]) => InRange(features[k])

\* a record with an interval at the upper end of the range and a missing one
C10_Witness ==
    /\ pc = "Assembled"
    /\ ~IsNaN(summary.PR_Interval_ms) /\ RatioEq(summary.PR_Interval_ms, 800)
    /\ IsNaN(summary.QRS_Duration_ms)

====
